---- MODULE Spec2Model ----
(***************************************************************************)
(* Model of main.cpp: the OBJ loader (loadOBJ) with its fan triangulation, *)
(* and main()'s startup sequence and frame loop (camera state update).     *)
(*                                                                         *)
(* SpecLoadOBJ runs loadOBJ line by line (and corner token by corner token *)
(* inside a face line) over arbitrary bounded files; SpecMain runs main,   *)
(* which calls loadOBJ once on one of a few files.                         *)
(*                                                                         *)
(* Floats are modelled in fixed point: distances in thousandths of a unit, *)
(* angles in thousandths of a radian, time in milliseconds.  Text tokens   *)
(* are sequences of one-character strings.                                 *)
(***************************************************************************)
EXTENDS Integers, Sequences, FiniteSets, TLC

VARIABLES
    fileOpen,       \* std::ifstream file(path) opened successfully
    lpc,            \* position inside loadOBJ
    tempVertices,   \* std::vector<glm::vec3> tempVertices
    tempNormals,    \* std::vector<glm::vec3> tempNormals
    token,          \* std::string token (last corner token extracted)
    faceVerts,      \* std::vector<unsigned int> faceVerts
    faceNormals,    \* std::vector<unsigned int> faceNormals
    mesh,           \* Mesh mesh (vertices, normals, indices)
    wellFormed,     \* history: every line consumed so far is well-formed
    nTokens,        \* corner tokens consumed so far
    pc,             \* position inside main
    uploaded,       \* glBufferData has been issued for the mesh
    now,            \* glfwGetTime(), milliseconds since glfwInit
    lastFrameTime,  \* float lastFrameTime
    deltaTime,      \* float deltaTime of the current iteration
    angleY,         \* float angleY
    angleZ,         \* float angleZ
    cameraDistance, \* float cameraDistance
    eye,            \* length of eye = cameraDir * cameraDistance of the last draw
    shouldClose,    \* the window's should-close flag
    frame           \* iterations of the frame loop started so far

loaderVars == <<fileOpen, lpc, tempVertices, tempNormals, token, faceVerts,
                faceNormals, mesh, wellFormed, nTokens>>
mainVars == <<pc, uploaded, now, lastFrameTime, deltaTime, angleY, angleZ,
              cameraDistance, eye, shouldClose, frame>>
vars == <<loaderVars, mainVars>>

----------------------------------------------------------------------------
(* Bounds of the model.                                                    *)

MaxVerts == 1
MaxNormals == 2
MaxTokens == 5
MaxFrames == 2

(* Input alphabets.                                                        *)

Digits == {"0", "1", "2", "3", "4"}

(* The k-th "v" line and the k-th "vn" line of a file carry vectors that    *)
(* tell them apart from every other line's.                                *)
NthPosition(k) == <<k, 0, 5>>
NthNormal(k) == <<0, k, 6>>
GarbageVals == {<<7, 7, 7>>}

Tokens ==
    { <<"1", "/", "/", "1">>,
      <<"2", "/", "/", "2">>,
      <<"1", "/", "1", "/", "1">>,
      <<"0", "/", "/", "1">>,
      <<"2">>,
      <<"2", "/", "1">>,
      <<"1", "/", "/">> }

----------------------------------------------------------------------------
(* Machine arithmetic.  An unsigned value (unsigned int, size_t) is        *)
(* represented by the signed integer with the same two's-complement bit    *)
(* pattern: 0 - 1 is -1, standing for the all-ones value (UINT_MAX,        *)
(* std::string::npos).  Addition and subtraction of the small values that  *)
(* occur then wrap exactly as in C++; comparison is unsigned.              *)

npos == 0 - 1

(* a < b on unsigned operands.                                             *)
ULess(a, b) == IF (a < 0) = (b < 0) THEN a < b ELSE b < 0

(* size_t a + b, wrapping.                                                 *)
SizeAdd(a, b) == a + b

(* unsigned int x = std::stoul(...) - 1, wrapping.                         *)
UIntSub(a, b) == a - b

----------------------------------------------------------------------------
(* std::string operations on tokens (0-based positions, as in C++).        *)

(* token.find('/', from)                                                   *)
Find(s, ch, from) ==
    LET hits == { k \in 0 .. Len(s) - 1 : ~ULess(k, from) /\ s[k + 1] = ch }
    IN  IF hits = {} THEN npos
        ELSE CHOOSE k \in hits : \A h \in hits : k <= h

(* token.substr(pos, count); pos <= size() in every use.                   *)
Substr(s, pos, count) ==
    LET last == IF ULess(count, Len(s) - pos) THEN pos + count ELSE Len(s)
    IN  SubSeq(s, pos + 1, last)

DigitVal(c) ==
    CASE c = "0" -> 0 [] c = "1" -> 1 [] c = "2" -> 2 [] c = "3" -> 3
      [] c = "4" -> 4

RECURSIVE StoulDigits(_, _, _)
StoulDigits(s, k, acc) ==
    IF k > Len(s) \/ s[k] \notin Digits THEN acc
    ELSE StoulDigits(s, k + 1, 10 * acc + DigitVal(s[k]))

(* std::stoul(s): the value of the leading digits; throws                  *)
(* std::invalid_argument when there is none.                               *)
Stoul(s) ==
    IF Len(s) = 0 \/ s[1] \notin Digits
    THEN [ok |-> FALSE, val |-> 0]
    ELSE [ok |-> TRUE, val |-> StoulDigits(s, 1, 0)]

(* The body of the corner loop: position and normal index of one token.    *)
ParseCorner(tok) ==
    LET pos1 == Find(tok, "/", 0)
        pos2 == Find(tok, "/", SizeAdd(pos1, 1))
        sv == Stoul(Substr(tok, 0, pos1))
        sn == Stoul(Substr(tok, SizeAdd(pos2, 1), npos))
    IN  [ok |-> sv.ok /\ sn.ok,
         v |-> UIntSub(sv.val, 1),
         n |-> UIntSub(sn.val, 1)]

----------------------------------------------------------------------------
(* Triangulation of one face.                                              *)

EmptyMesh == [vertices |-> <<>>, normals |-> <<>>, indices |-> <<>>]

(* The three position indices pushed by iteration i of the fan loop        *)
(* (faceVerts[0], faceVerts[i], faceVerts[i + 1]).                         *)
TriangleIndicesStrip(fv, i) == <<fv[i], fv[i + 1], fv[i + 2]>>
TriangleIndices(fv, i) == <<fv[1], fv[i + 1], fv[i + 2]>>

(* The corner whose normal the inner loop reads at step j of iteration i   *)
(* (faceNormals[j]).                                                       *)
NormalCorner(i, j) == j

(* The floats pushed for one normal.                                       *)
NormalFloatsXY(vec) == <<vec[1], vec[2]>>
NormalFloats(vec) == <<vec[1], vec[2], vec[3]>>

(* for (int j = 0; j < 3; j++): reading tempNormals out of range is        *)
(* undefined; ub.crash says whether the read faults, otherwise it yields   *)
(* ub.vec.                                                                 *)
RECURSIVE AddNormals(_, _, _, _, _, _)
AddNormals(i, j, fn, tn, m, ub) ==
    IF ~(j < 3) THEN [mesh |-> m, status |-> "ok"]
    ELSE LET c == NormalCorner(i, j)
             inFace == c < Len(fn)
             idx == IF inFace THEN fn[c + 1] ELSE 0
             inRange == inFace /\ ULess(idx, Len(tn))
         IN  IF ~inRange /\ ub.crash
             THEN [mesh |-> m, status |-> "crashed"]
             ELSE LET normal == IF inRange THEN tn[idx + 1] ELSE ub.vec
                      m1 == [m EXCEPT !.normals = @ \o NormalFloats(normal)]
                  IN  AddNormals(i, j + 1, fn, tn, m1, ub)

(* for (size_t i = 1; i < faceVerts.size() - 1; i++)                       *)
LoopBound(n) == n - 1

RECURSIVE FanLoop(_, _, _, _, _, _)
FanLoop(i, fv, fn, tn, m, ub) ==
    IF ~ULess(i, LoopBound(Len(fv))) THEN [mesh |-> m, status |-> "ok"]
    ELSE IF Len(fv) = 0
         \* faceVerts[0] of an empty vector: a fault, or garbage pushed
         \* 2^64 - 2 times until allocation fails (std::bad_alloc).
         THEN [mesh |-> m,
               status |-> IF ub.crash THEN "crashed" ELSE "terminated"]
         ELSE LET m1 == [m EXCEPT !.indices = @ \o TriangleIndices(fv, i)]
                  r == AddNormals(i, 0, fn, tn, m1, ub)
              IN  IF r.status # "ok" THEN r
                  ELSE FanLoop(i + 1, fv, fn, tn, r.mesh, ub)

Triangulate(fv, fn, tn, m, ub) == FanLoop(1, fv, fn, tn, m, ub)

UBOutcomes ==
    {[crash |-> TRUE, vec |-> <<0, 0, 0>>]}
        \cup {[crash |-> FALSE, vec |-> g] : g \in GarbageVals}

(* for (auto& vertex : tempVertices) push x, y, z                          *)
RECURSIVE Flatten(_)
Flatten(vs) ==
    IF vs = <<>> THEN <<>>
    ELSE <<Head(vs)[1], Head(vs)[2], Head(vs)[3]>> \o Flatten(Tail(vs))

----------------------------------------------------------------------------
(* Well-formedness of the source text (the format of the face records).    *)

Slashes(tok) == { k \in 1 .. Len(tok) : tok[k] = "/" }

AllDigits(s) == Len(s) > 0 /\ \A k \in 1 .. Len(s) : s[k] \in Digits

(* position "/" [texcoord] "/" normal                                      *)
HasNormalIndex(tok) ==
    /\ Cardinality(Slashes(tok)) = 2
    /\ LET p2 == CHOOSE k \in Slashes(tok) : \A h \in Slashes(tok) : h <= k
       IN  AllDigits(SubSeq(tok, p2 + 1, Len(tok)))

PositionField(tok) ==
    LET p1 == CHOOSE k \in Slashes(tok) : \A h \in Slashes(tok) : k <= h
    IN  SubSeq(tok, 1, p1 - 1)

NormalField(tok) ==
    LET p2 == CHOOSE k \in Slashes(tok) : \A h \in Slashes(tok) : h <= k
    IN  SubSeq(tok, p2 + 1, Len(tok))

WellFormedToken(tok, nNormals) ==
    /\ HasNormalIndex(tok)
    /\ AllDigits(PositionField(tok))
    /\ StoulDigits(PositionField(tok), 1, 0) >= 1
    /\ StoulDigits(NormalField(tok), 1, 0) \in 1 .. nNormals

----------------------------------------------------------------------------
(* loadOBJ, one step per line (and per corner token of a face line).       *)

LoaderInit ==
    /\ fileOpen \in BOOLEAN
    /\ lpc = "getline"
    /\ tempVertices = <<>>
    /\ tempNormals = <<>>
    /\ token = <<>>
    /\ faceVerts = <<>>
    /\ faceNormals = <<>>
    /\ mesh = EmptyMesh
    /\ wellFormed = TRUE
    /\ nTokens = 0

MainInit ==
    /\ pc = "start"
    /\ uploaded = FALSE
    /\ now = 0
    /\ lastFrameTime = 0
    /\ deltaTime = 0
    /\ angleY = 0
    /\ angleZ = 0
    /\ cameraDistance = 0
    /\ eye = 0
    /\ shouldClose = FALSE
    /\ frame = 0

Init == LoaderInit /\ MainInit

CanReadLine == fileOpen /\ lpc = "getline"

(* "v x y z"                                                               *)
ReadVertexLine ==
    /\ CanReadLine
    /\ Len(tempVertices) < MaxVerts
    /\ tempVertices' =
           Append(tempVertices, NthPosition(Len(tempVertices) + 1))
    /\ UNCHANGED <<fileOpen, lpc, tempNormals, token, faceVerts, faceNormals,
                   mesh, wellFormed, nTokens, mainVars>>

(* "vn x y z"                                                              *)
ReadNormalLine ==
    /\ CanReadLine
    /\ Len(tempNormals) < MaxNormals
    /\ tempNormals' = Append(tempNormals, NthNormal(Len(tempNormals) + 1))
    /\ UNCHANGED <<fileOpen, lpc, tempVertices, token, faceVerts, faceNormals,
                   mesh, wellFormed, nTokens, mainVars>>

(* Any other line: no branch is taken.                                     *)
ReadOtherLine ==
    /\ CanReadLine
    /\ UNCHANGED <<fileOpen, lpc, tempVertices, tempNormals, token, faceVerts,
                   faceNormals, mesh, wellFormed, nTokens, mainVars>>

(* "f ...": faceVerts, faceNormals and token are constructed empty.        *)
BeginFaceLine ==
    /\ CanReadLine
    /\ nTokens < MaxTokens
    /\ lpc' = "tokens"
    /\ UNCHANGED <<fileOpen, tempVertices, tempNormals, token, faceVerts,
                   faceNormals, mesh, wellFormed, nTokens, mainVars>>

(* while (ss >> token) { ... }: one corner.                                *)
ParseToken ==
    /\ lpc = "tokens"
    /\ nTokens < MaxTokens
    /\ \E tok \in Tokens :
           LET c == ParseCorner(tok)
           IN  /\ token' = tok
               /\ IF c.ok
                  THEN /\ faceVerts' = Append(faceVerts, c.v)
                       /\ faceNormals' = Append(faceNormals, c.n)
                       /\ lpc' = lpc
                  ELSE \* std::invalid_argument is not caught anywhere
                       /\ lpc' = "terminated"
                       /\ UNCHANGED <<faceVerts, faceNormals>>
               /\ wellFormed' =
                      (wellFormed /\ WellFormedToken(tok, Len(tempNormals)))
    /\ nTokens' = nTokens + 1
    /\ UNCHANGED <<fileOpen, tempVertices, tempNormals, mesh,
                   mainVars>>

(* End of the face line: the triangulation loop.                           *)
TriangulateFace ==
    /\ lpc = "tokens"
    /\ \E ub \in UBOutcomes :
           LET r == Triangulate(faceVerts, faceNormals, tempNormals, mesh, ub)
           IN  /\ mesh' = r.mesh
               /\ lpc' = IF r.status = "ok" THEN "getline" ELSE r.status
    /\ wellFormed' = (wellFormed /\ Len(faceVerts) >= 3)
    \* token, faceVerts and faceNormals go out of scope
    /\ token' = <<>>
    /\ faceVerts' = <<>>
    /\ faceNormals' = <<>>
    /\ UNCHANGED <<fileOpen, tempVertices, tempNormals, nTokens,
                   mainVars>>

(* getline fails (end of file, or the stream never opened): copy the       *)
(* positions and return.                                                   *)
EndOfFile ==
    /\ lpc = "getline"
    /\ mesh' = [mesh EXCEPT !.vertices = @ \o Flatten(tempVertices)]
    /\ lpc' = "returned"
    /\ UNCHANGED <<fileOpen, tempVertices, tempNormals, token, faceVerts,
                   faceNormals, wellFormed, nTokens, mainVars>>

NextLoadOBJ ==
    \/ ReadVertexLine
    \/ ReadNormalLine
    \/ ReadOtherLine
    \/ BeginFaceLine
    \/ ParseToken
    \/ TriangulateFace
    \/ EndOfFile

SpecLoadOBJ == Init /\ [][NextLoadOBJ]_vars

----------------------------------------------------------------------------
(* loadOBJ as one call, as main runs it: the same steps folded over the    *)
(* lines of a file.  A line is [kind |-> "v" | "vn" | "f" | "other"], a    *)
(* face line also carries its corner tokens.                               *)

RECURSIVE ParseFace(_, _, _, _)
ParseFace(toks, k, fv, fn) ==
    IF k > Len(toks) THEN [ok |-> TRUE, fv |-> fv, fn |-> fn]
    ELSE LET c == ParseCorner(toks[k])
         IN  IF ~c.ok THEN [ok |-> FALSE, fv |-> fv, fn |-> fn]
             ELSE ParseFace(toks, k + 1, Append(fv, c.v), Append(fn, c.n))

ProcessLine(st, line, ub) ==
    CASE line.kind = "v" ->
             [st EXCEPT !.tempVertices =
                            Append(@, NthPosition(Len(st.tempVertices) + 1))]
      [] line.kind = "vn" ->
             [st EXCEPT !.tempNormals =
                            Append(@, NthNormal(Len(st.tempNormals) + 1))]
      [] line.kind = "f" ->
             LET f == ParseFace(line.tokens, 1, <<>>, <<>>)
                 r == Triangulate(f.fv, f.fn, st.tempNormals, st.mesh, ub)
             IN  IF ~f.ok THEN [st EXCEPT !.status = "terminated"]
                 ELSE [st EXCEPT !.mesh = r.mesh, !.status = r.status]
      [] OTHER -> st

RECURSIVE LoadLines(_, _, _, _)
LoadLines(lines, k, st, ub) ==
    IF k > Len(lines) \/ st.status # "ok" THEN st
    ELSE LoadLines(lines, k + 1, ProcessLine(st, lines[k], ub), ub)

(* Mesh loadOBJ(path): a stream that failed to open yields no line.        *)
LoadOBJ(open, lines, ub) ==
    LET st0 == [tempVertices |-> <<>>, tempNormals |-> <<>>,
                mesh |-> EmptyMesh, status |-> "ok"]
        st == LoadLines(IF open THEN lines ELSE <<>>, 1, st0, ub)
    IN  IF st.status # "ok" THEN [status |-> st.status, mesh |-> st.mesh]
        ELSE [status |-> "returned",
              mesh |-> [st.mesh EXCEPT
                            !.vertices = @ \o Flatten(st.tempVertices)]]

VLine == [kind |-> "v"]
VNLine == [kind |-> "vn"]
FLine(toks) == [kind |-> "f", tokens |-> toks]

(* Contents teapot.obj may have in the runs of main that are explored: a   *)
(* triangle, a quad, and a face whose corner has an empty normal field.    *)
ExampleFiles ==
    { <<VLine, VLine, VLine, VNLine,
        FLine(<< <<"1", "/", "/", "1">>, <<"2", "/", "/", "1">>,
                 <<"3", "/", "/", "1">> >>)>>,
      <<VLine, VLine, VLine, VLine, VNLine, [kind |-> "other"],
        FLine(<< <<"1", "/", "/", "1">>, <<"2", "/", "/", "1">>,
                 <<"3", "/", "/", "1">>, <<"4", "/", "/", "1">> >>)>>,
      <<VLine, VNLine, FLine(<< <<"1", "/", "/">> >>)>> }

----------------------------------------------------------------------------
(* main: the camera constants, in thousandths.                             *)

rotationSpeed == 2
zoomSpeed == 10
initialDistance == 5196
minDistance == 1500
maxDistance == 40000

(* Wall-clock time a step may take, in milliseconds.                       *)
Durations == {0, 400, 4000}

ControlKeys == {"A", "D", "W", "S", "Q", "E"}

(* glm::clamp(x, minVal, maxVal) = min(max(x, minVal), maxVal)             *)
ClampNoUpper(x, lo, hi) == IF x < lo THEN lo ELSE x
Clamp(x, lo, hi) ==
    LET m == IF x < lo THEN lo ELSE x
    IN  IF hi < m THEN hi ELSE m

(* while (!glfwWindowShouldClose(window))                                  *)
LoopConditionForever(flag) == TRUE
LoopCondition(flag) == ~flag

(* float deltaTime = currentFrame - lastFrameTime                          *)
FrameDelta(currentFrame, last) == currentFrame - last

(* glfwInit, glfwCreateWindow, gladLoadGLLoader: any may fail.             *)
InitGraphics ==
    /\ pc = "start"
    /\ \E ok \in BOOLEAN : pc' = IF ok THEN "load" ELSE "exit"
    /\ UNCHANGED <<loaderVars, uploaded, now, lastFrameTime, deltaTime,
                   angleY, angleZ, cameraDistance, eye, shouldClose, frame>>

(* Mesh mesh = loadOBJ("teapot.obj")                                       *)
LoadMesh ==
    /\ pc = "load"
    /\ \E lines \in ExampleFiles, ub \in UBOutcomes :
           LET r == LoadOBJ(fileOpen, lines, ub)
           IN  /\ mesh' = r.mesh
               /\ lpc' = r.status
               /\ pc' = IF r.status = "returned" THEN "upload" ELSE "aborted"
    /\ \E d \in Durations \ {0} : now' = now + d
    /\ UNCHANGED <<fileOpen, tempVertices, tempNormals, token, faceVerts,
                   faceNormals, wellFormed, nTokens, uploaded, lastFrameTime,
                   deltaTime, angleY, angleZ, cameraDistance, eye,
                   shouldClose, frame>>

(* glGenBuffers ... glBufferData for vertices, normals and indices.        *)
UploadMesh ==
    /\ pc = "upload"
    /\ uploaded' = TRUE
    /\ pc' = "setup"
    /\ UNCHANGED <<loaderVars, now, lastFrameTime, deltaTime, angleY, angleZ,
                   cameraDistance, eye, shouldClose, frame>>

(* Shaders, lighting constants, rotation and zoom variables.               *)
SetupCamera ==
    /\ pc = "setup"
    /\ angleY' = 0
    /\ angleZ' = 0
    /\ cameraDistance' = initialDistance
    /\ lastFrameTime' = 0
    /\ pc' = "check"
    /\ UNCHANGED <<loaderVars, uploaded, now, deltaTime, eye, shouldClose,
                   frame>>

(* The loop condition, evaluated at the top of every iteration.            *)
EnterFrame ==
    /\ pc = "check"
    /\ LoopCondition(shouldClose)
    /\ frame < MaxFrames
    /\ frame' = frame + 1
    /\ pc' = "time"
    /\ UNCHANGED <<loaderVars, uploaded, now, lastFrameTime, deltaTime,
                   angleY, angleZ, cameraDistance, eye, shouldClose>>

LeaveLoop ==
    /\ pc = "check"
    /\ ~LoopCondition(shouldClose)
    /\ pc' = "cleanup"
    /\ UNCHANGED <<loaderVars, uploaded, now, lastFrameTime, deltaTime,
                   angleY, angleZ, cameraDistance, eye, shouldClose, frame>>

(* currentFrame = glfwGetTime(); deltaTime; lastFrameTime = currentFrame   *)
FrameTime ==
    /\ pc = "time"
    /\ deltaTime' = FrameDelta(now, lastFrameTime)
    /\ lastFrameTime' = now
    /\ pc' = "input"
    /\ UNCHANGED <<loaderVars, uploaded, now, angleY, angleZ, cameraDistance,
                   eye, shouldClose, frame>>

(* if (glfwGetKey(window, GLFW_KEY_ESCAPE) == GLFW_PRESS) ...              *)
SampleExit ==
    /\ pc = "input"
    /\ \E escape \in BOOLEAN : shouldClose' = (shouldClose \/ escape)
    /\ pc' = "controls"
    /\ UNCHANGED <<loaderVars, uploaded, now, lastFrameTime, deltaTime,
                   angleY, angleZ, cameraDistance, eye, frame>>

Held(held, key) == IF key \in held THEN 1 ELSE 0

(* Rotation controls and zoom controls.                                    *)
ApplyControls ==
    /\ pc = "controls"
    /\ \E held \in SUBSET ControlKeys :
           /\ angleY' = angleY + Held(held, "A") * rotationSpeed * deltaTime
                               - Held(held, "D") * rotationSpeed * deltaTime
           /\ angleZ' = angleZ + Held(held, "W") * rotationSpeed * deltaTime
                               - Held(held, "S") * rotationSpeed * deltaTime
           /\ cameraDistance' =
                  cameraDistance - Held(held, "Q") * zoomSpeed * deltaTime
                                 + Held(held, "E") * zoomSpeed * deltaTime
    /\ pc' = "clamp"
    /\ UNCHANGED <<loaderVars, uploaded, now, lastFrameTime, deltaTime, eye,
                   shouldClose, frame>>

(* cameraDistance = glm::clamp(cameraDistance, 1.5f, 40.0f)                *)
ClampDistance ==
    /\ pc = "clamp"
    /\ cameraDistance' = Clamp(cameraDistance, minDistance, maxDistance)
    /\ pc' = "draw"
    /\ UNCHANGED <<loaderVars, uploaded, now, lastFrameTime, deltaTime,
                   angleY, angleZ, eye, shouldClose, frame>>

(* glClear ... eye = cameraDir * cameraDistance ... glDrawElements         *)
DrawFrame ==
    /\ pc = "draw"
    /\ eye' = cameraDistance
    /\ pc' = "swap"
    /\ UNCHANGED <<loaderVars, uploaded, now, lastFrameTime, deltaTime,
                   angleY, angleZ, cameraDistance, shouldClose, frame>>

(* glfwSwapBuffers; glfwPollEvents: time passes, and the window may be     *)
(* asked to close.                                                         *)
SwapAndPoll ==
    /\ pc = "swap"
    /\ \E d \in Durations : now' = now + d
    /\ \E closeRequest \in BOOLEAN :
           shouldClose' = (shouldClose \/ closeRequest)
    /\ pc' = "check"
    /\ UNCHANGED <<loaderVars, uploaded, lastFrameTime, deltaTime, angleY,
                   angleZ, cameraDistance, eye, frame>>

(* glDelete...; glfwTerminate; return 0                                    *)
Cleanup ==
    /\ pc = "cleanup"
    /\ pc' = "exit"
    /\ UNCHANGED <<loaderVars, uploaded, now, lastFrameTime, deltaTime,
                   angleY, angleZ, cameraDistance, eye, shouldClose, frame>>

NextMain ==
    \/ InitGraphics
    \/ LoadMesh
    \/ UploadMesh
    \/ SetupCamera
    \/ EnterFrame
    \/ LeaveLoop
    \/ FrameTime
    \/ SampleExit
    \/ ApplyControls
    \/ ClampDistance
    \/ DrawFrame
    \/ SwapAndPoll
    \/ Cleanup

SpecMain == Init /\ [][NextMain]_vars

----------------------------------------------------------------------------
(* Properties of loadOBJ (checked under SpecLoadOBJ).                      *)

(* A face line has just been triangulated and the loader goes on.          *)
FaceDone == lpc = "tokens" /\ lpc' = "getline"

NormalsInRange(fn, tn) == \A k \in 1 .. Len(fn) : ULess(fn[k], Len(tn))

(* The fan of a face with corners c0 .. c(n-1): entry k of the 3 * (n - 2) *)
(* corner numbers (c0, ci, c(i+1)), i = 1 .. n-2.                          *)
FanCorner(k) ==
    LET i == ((k - 1) \div 3) + 1
        r == (k - 1) % 3
    IN  IF r = 0 THEN 0 ELSE i + r - 1

ExpectedIndices(fv) ==
    [k \in 1 .. 3 * (Len(fv) - 2) |-> fv[FanCorner(k) + 1]]

ExpectedNormals(fn, tn) ==
    [k \in 1 .. 9 * (Len(fn) - 2) |->
        tn[fn[FanCorner(((k - 1) \div 3) + 1) + 1] + 1][((k - 1) % 3) + 1]]

(* C1: for every triangle emitted from a face with n >= 3 corners, the     *)
(* three normals pushed onto mesh.normals are those of corners c0, ci,     *)
(* c(i+1), in the order of the three position indices just pushed.         *)
C1_NormalsFollowCorners ==
    [][(FaceDone /\ wellFormed /\ Len(faceVerts) >= 3
            /\ NormalsInRange(faceNormals, tempNormals))
        => mesh'.normals
               = mesh.normals \o ExpectedNormals(faceNormals, tempNormals)]_vars

(* C2: a face line with n >= 3 corners appends exactly n - 2 triangles to  *)
(* mesh.indices, the i-th being (c0, ci, c(i+1)).                          *)
C2_FanTriangles ==
    [][(FaceDone /\ Len(faceVerts) >= 3)
        => /\ Len(mesh'.indices) = Len(mesh.indices) + 3 * (Len(faceVerts) - 2)
           /\ mesh'.indices = mesh.indices \o ExpectedIndices(faceVerts)]_vars

(* A quad has been triangulated into two triangles that are not all the    *)
(* same corner.                                                            *)
C2_Witness ==
    /\ lpc = "getline"
    /\ Len(mesh.indices) >= 6
    /\ mesh.indices[4] = mesh.indices[1]
    /\ mesh.indices[5] = mesh.indices[3]
    /\ mesh.indices[2] # mesh.indices[1]

(* C3: for a well-formed source, after every line and at the return, the   *)
(* number of indices is a multiple of 3 and there is one normal (three     *)
(* floats) per index; no step of loading has failed.                       *)
C3_Lockstep ==
    wellFormed =>
        /\ lpc \in {"getline", "tokens", "returned"}
        /\ Len(mesh.indices) % 3 = 0
        /\ Len(mesh.normals) = 3 * Len(mesh.indices)

C3_Witness ==
    /\ wellFormed
    /\ lpc = "returned"
    /\ Len(mesh.indices) >= 6
    /\ Len(mesh.vertices) = 3

(* C4: in every returned mesh each index is a valid position index,        *)
(* 0 <= index < mesh.vertices.size() / 3.                                  *)
C4_IndicesInRange ==
    lpc = "returned" =>
        \A k \in 1 .. Len(mesh.indices) :
            ULess(mesh.indices[k], Len(mesh.vertices) \div 3)

(* C7: a face line with fewer than 3 corners makes loading fail; it is     *)
(* not skipped with loading going on.                                      *)
C7_ShortFaceFails ==
    [][(lpc = "tokens" /\ lpc' # "tokens" /\ Len(faceVerts) < 3)
        => lpc' \in {"terminated", "crashed"}]_vars

(* C8: a corner token without a normal index, or with a normal index       *)
(* outside the normals declared so far, is a fatal parse error: the        *)
(* loader does not go on with a normal index for that corner.              *)
C8_MissingNormalIsFatal ==
    (lpc = "tokens" /\ token # <<>>)
        => /\ HasNormalIndex(token)
           /\ StoulDigits(NormalField(token), 1, 0) \in 1 .. Len(tempNormals)

----------------------------------------------------------------------------
(* Properties of main (checked under SpecMain).                            *)

InRange(d) == minDistance <= d /\ d <= maxDistance

Saturated(d) ==
    IF d < minDistance THEN minDistance
    ELSE IF d > maxDistance THEN maxDistance ELSE d

(* C5: the camera distance after each frame's update, the value the eye    *)
(* position of that frame's draw is computed from, lies in [1.5, 40.0]; a  *)
(* value pushed outside is saturated to the nearer bound.                  *)
C5_DistanceClamped ==
    [][/\ (pc = "clamp" /\ pc' = "draw")
            => cameraDistance' = Saturated(cameraDistance)
       /\ pc' \in {"draw", "swap"} => InRange(cameraDistance')
       /\ (pc = "draw" /\ pc' = "swap") => InRange(eye')]_vars

(* The previous frame drew at the minimum and this frame zoomed in again.  *)
C5_Witness ==
    /\ pc = "clamp"
    /\ frame >= 2
    /\ eye = minDistance
    /\ cameraDistance < minDistance

(* C6: when the mesh file cannot be opened, startup is aborted: no mesh is *)
(* uploaded and the frame loop is not entered.                             *)
C6_MissingFileAborts ==
    ~fileOpen => (~uploaded /\ frame = 0)

(* C9: the first frame's delta is 0, so angleY, angleZ and cameraDistance  *)
(* keep their initial values through the first frame.                      *)
C9_FirstFrameDeltaZero ==
    (frame = 1 /\ pc \in {"input", "controls", "clamp", "draw", "swap"})
        => /\ deltaTime = 0
           /\ pc \in {"draw", "swap"}
                  => /\ angleY = 0
                     /\ angleZ = 0
                     /\ cameraDistance = initialDistance

LoopPcs == {"check", "time", "input", "controls", "clamp", "draw", "swap"}

Successor(p) ==
    CASE p = "check" -> {"time", "cleanup"}
      [] p = "time" -> {"input"}
      [] p = "input" -> {"controls"}
      [] p = "controls" -> {"clamp"}
      [] p = "clamp" -> {"draw"}
      [] p = "draw" -> {"swap"}
      [] p = "swap" -> {"check"}

camera == <<angleY, angleZ, cameraDistance>>

(* C10: every iteration tests the should-exit flag once, at its start,     *)
(* then samples input, updates the camera (clamp included) and draws, in   *)
(* that order; an exit signal sampled during an iteration does not cut it  *)
(* short, and no iteration follows it.                                     *)
C10_FrameOrder ==
    [][(pc \in LoopPcs /\ pc' # pc)
        => /\ pc' \in Successor(pc)
           /\ pc = "check" => /\ (pc' = "time") = ~shouldClose
                              /\ (pc' = "cleanup") = shouldClose
                              /\ frame' = IF shouldClose THEN frame
                                          ELSE frame + 1
           /\ pc # "check" => frame' = frame
           /\ pc = "input" => (camera' = camera /\ eye' = eye)
           /\ pc \in {"controls", "clamp"}
                  => (shouldClose' = shouldClose /\ eye' = eye)
           /\ pc = "draw" => /\ eye' = cameraDistance
                             /\ camera' = camera
                             /\ shouldClose' = shouldClose]_vars

(* The exit signal was sampled in this iteration, which is now drawing.    *)
C10_Witness ==
    /\ pc = "draw"
    /\ shouldClose
    /\ frame >= 2

====
